---- MODULE Spec2Model ----
(***************************************************************************)
(* The /sales and /stores handlers of backend/app.py over the lazily       *)
(* loaded sales table.  Text (query parameters, JSON string fields) is a   *)
(* sequence of one-character strings; a Store or Dept cell is a tagged     *)
(* value, [int |-> n] for an int64 cell and [str |-> s] for a text cell;   *)
(* a Date cell is a calendar date [y, m, d]; Weekly_Sales is an integer    *)
(* amount.  A frame carries its column names next to its rows.  Requests   *)
(* are handled one at a time (Sales, Stores), or each in a thread of its   *)
(* own, a statement of load_df at a time (Call to ThreadReturn).           *)
(***************************************************************************)
EXTENDS Integers, Sequences, FiniteSets, TLC

VARIABLES csv,     \* the file at CSV_PATH
          _df,     \* the process-wide cache of load_df
          req,     \* the request served last
          q,       \* the filtered frame of the request served last
          status,  \* the HTTP status of its response
          out,     \* the rows of its response
          error,   \* the error of its response, "" if none
          first,   \* a response a caller kept, to compare later ones with
          reads,   \* the number of read_csv calls made so far
          threads  \* the requests the threaded server is handling

vars == <<csv, _df, req, q, status, out, error, first, reads, threads>>

----------------------------------------------------------------------------
(* Text *)

Digits == <<"0", "1", "2", "3", "4", "5", "6", "7", "8", "9">>

IsDigit(c) == \E i \in 1..10 : Digits[i] = c

DigitVal(c) == (CHOOSE i \in 1..10 : Digits[i] = c) - 1

\* str(n) of a non-negative integer
RECURSIVE NatStr(_)
NatStr(n) == IF n < 10 THEN <<Digits[n + 1]>>
             ELSE NatStr(n \div 10) \o <<Digits[(n % 10) + 1]>>

\* str(n) of an integer
IntStr(n) == IF n < 0 THEN <<"-">> \o NatStr(0 - n) ELSE NatStr(n)

\* str.zfill(width) of a text without sign
RECURSIVE ZFill(_, _)
ZFill(s, width) == IF Len(s) >= width THEN s ELSE ZFill(<<"0">> \o s, width)

\* str.strip() restricted to the blank
RECURSIVE LStrip(_)
LStrip(s) == IF s # <<>> /\ Head(s) = " " THEN LStrip(Tail(s)) ELSE s

RECURSIVE RStrip(_)
RStrip(s) == IF s # <<>> /\ s[Len(s)] = " "
             THEN RStrip(SubSeq(s, 1, Len(s) - 1)) ELSE s

Strip(s) == RStrip(LStrip(s))

\* value of a non-empty run of decimal digits
RECURSIVE DigitsVal(_)
DigitsVal(s) == IF Len(s) = 1 THEN DigitVal(s[1])
                ELSE DigitsVal(SubSeq(s, 1, Len(s) - 1)) * 10 + DigitVal(s[Len(s)])

AllDigits(s) == s # <<>> /\ \A i \in 1..Len(s) : IsDigit(s[i])

\* int(s): blanks stripped, an optional sign, then decimal digits;
\* ok = FALSE stands for ValueError
ParseInt(s) ==
    LET t    == Strip(s)
        sgn  == t # <<>> /\ Head(t) \in {"+", "-"}
        body == IF sgn THEN Tail(t) ELSE t
    IN  IF AllDigits(body)
        THEN [ok |-> TRUE,
              v  |-> IF sgn /\ Head(t) = "-" THEN 0 - DigitsVal(body)
                     ELSE DigitsVal(body)]
        ELSE [ok |-> FALSE, v |-> 0]

----------------------------------------------------------------------------
(* Cells *)

I(n) == [int |-> n]
S(s) == [str |-> s]

IsInt(x) == DOMAIN x = {"int"}

\* Series.astype(str) on one cell
AsStr(x) == IF IsInt(x) THEN IntStr(x.int) ELSE x.str

\* the characters of the model in code-point order
Alphabet == <<" ", "+", "-", "0", "1", "2", "3", "4", "5", "6", "7", "8", "9",
              "A", "B", "a", "b", "x">>

Code(c) == CHOOSE i \in 1..Len(Alphabet) : Alphabet[i] = c

\* s < t as Python compares two str values
RECURSIVE StrLt(_, _)
StrLt(s, t) ==
    IF t = <<>> THEN FALSE
    ELSE IF s = <<>> THEN TRUE
    ELSE IF Head(s) = Head(t) THEN StrLt(Tail(s), Tail(t))
    ELSE Code(Head(s)) < Code(Head(t))

\* a < b between two cells of one column (int64, or text)
CellLt(a, b) == IF IsInt(a) /\ IsInt(b) THEN a.int < b.int
                ELSE StrLt(AsStr(a), AsStr(b))

----------------------------------------------------------------------------
(* Dates *)

Date(y, m, d) == [y |-> y, m |-> m, d |-> d]

\* Timestamp comparison: chronological
DateLt(a, b) == \/ a.y < b.y
                \/ a.y = b.y /\ a.m < b.m
                \/ a.y = b.y /\ a.m = b.m /\ a.d < b.d

DateLe(a, b) == a = b \/ DateLt(a, b)

DaysIn(y, m) ==
    IF m = 2
    THEN (IF (y % 4 = 0 /\ y % 100 # 0) \/ y % 400 = 0 THEN 29 ELSE 28)
    ELSE IF m \in {4, 6, 9, 11} THEN 30 ELSE 31

\* the fields of s between "-" separators
RECURSIVE Split(_)
Split(s) ==
    IF \A i \in 1..Len(s) : s[i] # "-" THEN <<s>>
    ELSE LET k == CHOOSE i \in 1..Len(s) :
                      s[i] = "-" /\ \A j \in 1..(i - 1) : s[j] # "-"
         IN  <<SubSeq(s, 1, k - 1)>> \o Split(SubSeq(s, k + 1, Len(s)))

\* the Timestamp a text bound is converted to when compared with the Date
\* column: "YYYY", "YYYY-MM" or "YYYY-MM-DD", absent fields being 1;
\* ok = FALSE stands for the comparison raising
ParseDate(s) ==
    LET f  == Split(s)
        n  == Len(f)
        wf == /\ n \in 1..3
              /\ \A i \in 1..n : AllDigits(f[i])
              /\ Len(f[1]) = 4
              /\ \A i \in 2..n : Len(f[i]) \in 1..2
        y  == DigitsVal(f[1])
        m  == IF n >= 2 THEN DigitsVal(f[2]) ELSE 1
        d  == IF n >= 3 THEN DigitsVal(f[3]) ELSE 1
    IN  IF wf /\ m \in 1..12 /\ d \in 1..DaysIn(y, m)
        THEN [ok |-> TRUE, v |-> Date(y, m, d)]
        ELSE [ok |-> FALSE, v |-> Date(1970, 1, 1)]

\* Series.dt.strftime('%Y-%m-%d') on one cell
Strftime(dt) == ZFill(NatStr(dt.y), 4) \o <<"-">> \o ZFill(NatStr(dt.m), 2)
                \o <<"-">> \o ZFill(NatStr(dt.d), 2)

----------------------------------------------------------------------------
(* Numbers of the derived views: exact fractions in lowest terms *)

Abs(n) == IF n < 0 THEN 0 - n ELSE n

RECURSIVE Gcd(_, _)
Gcd(a, b) == IF b = 0 THEN a ELSE Gcd(b, a % b)

\* num / den, den > 0
Frac(num, den) == LET g == Gcd(Abs(num), den)
                  IN  [num |-> num \div g, den |-> den \div g]

\* what to_json writes for a non-finite float
Null == [num |-> 0, den |-> 0]

----------------------------------------------------------------------------
(* The table *)

MaxRows == 3

Row(store, dept, date, sales) ==
    [Store |-> store, Dept |-> dept, Date |-> date, Weekly_Sales |-> sales]

\* records of a source whose Store column is read as int64
IntStoreRows ==
    { Row(I(1), S(<<"A">>), Date(2024, 1, 1), 100),
      Row(I(1), S(<<"A">>), Date(2024, 1, 8), 200),
      Row(I(2), S(<<"B">>), Date(2023, 1, 8), -100) }

\* records of a source whose Store column is read as text
StrStoreRows ==
    { Row(S(<<"1">>), I(10), Date(2024, 1, 8), 100),
      Row(S(<<"A">>), I(2),  Date(2024, 2, 5), -100),
      Row(S(<<"a">>), I(10), Date(2023, 12, 25), 0) }

\* the names of the four columns
StoreCol == <<"S", "t", "o", "r", "e">>
DeptCol == <<"D", "e", "p", "t">>
DateCol == <<"D", "a", "t", "e">>
SalesCol == <<"W", "e", "e", "k", "l", "y", "_", "S", "a", "l", "e", "s">>

\* a header line with blanks around the column names; the Date column is
\* named exactly, as parse_dates=['Date'] needs it
PaddedHeader == <<StoreCol \o <<" ">>, <<" ">> \o DeptCol, DateCol,
                  <<" ">> \o SalesCol \o <<" ">>>>

\* a header line without blanks
CleanHeader == <<StoreCol, DeptCol, DateCol, SalesCol>>

\* the tables of 1 to n records drawn from R, in any order, repeats allowed
SeqsUpTo(R, n) == UNION { [1..k -> R] : k \in 1..n }

Tables == SeqsUpTo(IntStoreRows, MaxRows) \cup SeqsUpTo(StrStoreRows, MaxRows)

\* no file at CSV_PATH
Missing == [exists |-> FALSE, header |-> <<>>, rows |-> <<>>]

\* the file at CSV_PATH: absent, or holding a header and at least one record
Sources == {Missing}
           \cup {[exists |-> TRUE, header |-> PaddedHeader, rows |-> t] :
                     t \in Tables}

\* _df = None
NoneDf == [loaded |-> FALSE, columns |-> <<>>, rows |-> <<>>]

----------------------------------------------------------------------------
(* Query parameters *)

Absent == [given |-> FALSE, s |-> <<>>]
Arg(s) == [given |-> TRUE, s |-> s]

\* Truthy taking every parameter that is given, the empty one too
TruthyGiven(p) == p.given

\* the truth value Python gives a parameter: None and '' are false
Truthy(p) == p.given /\ p.s # <<>>

NoView == [given |-> FALSE, s |-> ""]
View(name) == [given |-> TRUE, s |-> name]

ViewArgs == {NoView, View("time_series"), View("monthly"), View("by_dept"),
             View("moving_avg"), View("mom_pct"), View("bogus")}

StoreArgs == {Absent, Arg(<<"1">>), Arg(<<"0", "1">>), Arg(<<"A">>)}

DateArgs == {Absent,
             Arg(<<"2", "0", "2", "4", "-", "0", "1", "-", "0", "1">>),
             Arg(<<"2", "0", "2", "4", "-", "0", "1", "-", "0", "8">>)}

WindowArgs == {Absent, Arg(<<"1">>), Arg(<<"2">>)}

Requests == [path : {"/sales"}, view : ViewArgs, store : StoreArgs,
             start : DateArgs, end : DateArgs, window : WindowArgs]

----------------------------------------------------------------------------
(* load_df *)

\* pd.read_csv(CSV_PATH, parse_dates=['Date']): the frame as read, the
\* column names as the header line has them, the dates parsed
read_csv == [loaded |-> TRUE, columns |-> csv.header, rows |-> csv.rows]

\* [c.strip() for c in _df.columns]
StripColumns(columns) == [i \in DOMAIN columns |-> Strip(columns[i])]

\* the exception load_df raises when CSV_PATH does not exist
CSV_PATH == "Generator/src/amazon_sales_dataset.csv"
NotFound == [type |-> "FileNotFoundError", path |-> CSV_PATH]
NoException == [type |-> "", path |-> ""]

\* load_df reading the source whenever it exists, the cache ignored
load_dfReloads ==
    IF csv.exists
    THEN [raised |-> FALSE, exc |-> NoException, read |-> TRUE,
          df |-> [read_csv EXCEPT !.columns = StripColumns(read_csv.columns)]]
    ELSE IF _df.loaded
         THEN [raised |-> FALSE, exc |-> NoException, read |-> FALSE,
               df |-> _df]
         ELSE [raised |-> TRUE, exc |-> NotFound, read |-> FALSE, df |-> _df]

\* load_df handing out an empty table when the source is missing
load_dfEmptyOnMissing ==
    IF _df.loaded
    THEN [raised |-> FALSE, exc |-> NoException, read |-> FALSE, df |-> _df]
    ELSE IF csv.exists
         THEN [raised |-> FALSE, exc |-> NoException, read |-> TRUE,
               df |-> [read_csv EXCEPT
                          !.columns = StripColumns(read_csv.columns)]]
         ELSE [raised |-> FALSE, exc |-> NoException, read |-> FALSE,
               df |-> [loaded |-> FALSE, columns |-> CleanHeader,
                       rows |-> <<>>]]

\* load_df remembering that the load failed: the cache is set, and empty
load_dfCachesFailure ==
    IF _df.loaded
    THEN [raised |-> _df.columns = <<>>,
          exc |-> IF _df.columns = <<>> THEN NotFound ELSE NoException,
          read |-> FALSE, df |-> _df]
    ELSE IF csv.exists
         THEN [raised |-> FALSE, exc |-> NoException, read |-> TRUE,
               df |-> [read_csv EXCEPT
                          !.columns = StripColumns(read_csv.columns)]]
         ELSE [raised |-> TRUE, exc |-> NotFound, read |-> FALSE,
               df |-> [loaded |-> TRUE, columns |-> <<>>, rows |-> <<>>]]

\* load_df() run without interruption: the cached table, read from the
\* source on first use (dates parsed, column names stripped before it
\* returns); raised = TRUE stands for FileNotFoundError, which leaves the
\* cache unset; read tells whether read_csv was called
load_df ==
    IF _df.loaded
    THEN [raised |-> FALSE, exc |-> NoException, read |-> FALSE, df |-> _df]
    ELSE IF csv.exists
         THEN [raised |-> FALSE, exc |-> NoException, read |-> TRUE,
               df |-> [read_csv EXCEPT
                          !.columns = StripColumns(read_csv.columns)]]
         ELSE [raised |-> TRUE, exc |-> NotFound, read |-> FALSE, df |-> _df]

----------------------------------------------------------------------------
(* The filter stage of sales() *)

\* str.lower() on the letters of the model
Lower(s) == [i \in DOMAIN s |-> IF s[i] = "A" THEN "a"
                                ELSE IF s[i] = "B" THEN "b" ELSE s[i]]

\* StoreFilter with the text comparison ignoring case
StoreFilterIgnoreCase(df, store) ==
    IF ~Truthy(store) THEN df
    ELSE LET store_val == ParseInt(store.s)
         IN  IF store_val.ok
             THEN SelectSeq(df, LAMBDA r :
                      IsInt(r.Store) /\ r.Store.int = store_val.v)
             ELSE SelectSeq(df, LAMBDA r :
                      Lower(AsStr(r.Store)) = Lower(store.s))

\* q[q['Store'] == store_val], or q[q['Store'].astype(str) == store] when
\* int(store) raises
StoreFilter(df, store) ==
    IF ~Truthy(store) THEN df
    ELSE LET store_val == ParseInt(store.s)
         IN  IF store_val.ok
             THEN SelectSeq(df, LAMBDA r :
                      IsInt(r.Store) /\ r.Store.int = store_val.v)
             ELSE SelectSeq(df, LAMBDA r : AsStr(r.Store) = store.s)

\* StartFilter with the bound exclusive
StartFilterStrict(df, start) ==
    IF ~Truthy(start) THEN df
    ELSE LET bound == ParseDate(start.s).v
         IN  SelectSeq(df, LAMBDA r : DateLt(bound, r.Date))

\* q[q['Date'] >= start]
StartFilter(df, start) ==
    IF ~Truthy(start) THEN df
    ELSE LET bound == ParseDate(start.s).v
         IN  SelectSeq(df, LAMBDA r : DateLe(bound, r.Date))

\* q[q['Date'] <= end]
EndFilter(df, end) ==
    IF ~Truthy(end) THEN df
    ELSE LET bound == ParseDate(end.s).v
         IN  SelectSeq(df, LAMBDA r : DateLe(r.Date, bound))

\* the comparison of the Date column with a text bound raises
DateRaises(p) == Truthy(p) /\ ~ParseDate(p.s).ok

Reverse(rows) == [i \in DOMAIN rows |-> rows[Len(rows) + 1 - i]]

\* Filter handing the kept rows back in reverse order
FilterReversed(df, store, start, end) ==
    Reverse(EndFilter(StartFilter(StoreFilter(df, store), start), end))

\* the filter stage: store, then start, then end
Filter(df, store, start, end) ==
    EndFilter(StartFilter(StoreFilter(df, store), start), end)

----------------------------------------------------------------------------
(* Grouping *)

RECURSIVE SumSales(_)
SumSales(rows) == IF rows = <<>> THEN 0
                  ELSE Head(rows).Weekly_Sales + SumSales(Tail(rows))

\* the elements of K in ascending order, below[x] being the elements of K
\* that are less than x: each goes to the rank given by their number
SortSet(K, below) ==
    [i \in 1..Cardinality(K) |->
        CHOOSE x \in K : Cardinality(below[x]) = i - 1]

\* the distinct dates of rows, ascending
SortedDates(rows) ==
    LET K == {rows[i].Date : i \in DOMAIN rows}
    IN  SortSet(K, [x \in K |-> {y \in K : DateLt(y, x)}])

\* GroupByDate taking the first amount of each date, not the sum
GroupByDateFirst(rows) ==
    LET keys == SortedDates(rows)
    IN  [k \in 1..Len(keys) |->
            [key |-> keys[k],
             sum |-> Head(SelectSeq(rows,
                         LAMBDA r : r.Date = keys[k])).Weekly_Sales]]

\* q.groupby('Date')['Weekly_Sales'].sum(): one entry per distinct date,
\* ascending
GroupByDate(rows) ==
    LET keys == SortedDates(rows)
    IN  [k \in 1..Len(keys) |->
            [key |-> keys[k],
             sum |-> SumSales(SelectSeq(rows, LAMBDA r : r.Date = keys[k]))]]

YearMonth(dt) == <<dt.y, dt.m>>

YearMonthLt(a, b) == a[1] < b[1] \/ (a[1] = b[1] /\ a[2] < b[2])

\* the distinct (year, month) of rows, ascending
SortedMonths(rows) ==
    LET K == {YearMonth(rows[i].Date) : i \in DOMAIN rows}
    IN  SortSet(K, [x \in K |-> {y \in K : YearMonthLt(y, x)}])

\* GroupByMonth counting the rows of each month, not summing them
GroupByMonthCount(rows) ==
    LET keys == SortedMonths(rows)
    IN  [k \in 1..Len(keys) |->
            [key |-> keys[k],
             sum |-> Len(SelectSeq(rows,
                         LAMBDA r : YearMonth(r.Date) = keys[k]))]]

\* groupby(['Year','Month'])['Weekly_Sales'].sum(), and
\* groupby('ym')['Weekly_Sales'].sum() over monthly periods
GroupByMonth(rows) ==
    LET keys == SortedMonths(rows)
    IN  [k \in 1..Len(keys) |->
            [key |-> keys[k],
             sum |-> SumSales(SelectSeq(rows,
                         LAMBDA r : YearMonth(r.Date) = keys[k]))]]

\* the distinct cells of K, ascending
SortedCells(K) == SortSet(K, [x \in K |-> {y \in K : CellLt(y, x)}])

\* the distinct depts of rows in order of first appearance
RECURSIVE DeptsAsSeen(_)
DeptsAsSeen(rows) ==
    IF rows = <<>> THEN <<>>
    ELSE LET seen == DeptsAsSeen(SubSeq(rows, 1, Len(rows) - 1))
             dept == rows[Len(rows)].Dept
         IN  IF \E i \in DOMAIN seen : seen[i] = dept THEN seen
             ELSE Append(seen, dept)

\* GroupByDept without the sort of the keys
GroupByDeptUnsorted(rows) ==
    LET keys == DeptsAsSeen(rows)
    IN  [k \in 1..Len(keys) |->
            [key |-> keys[k],
             sum |-> SumSales(SelectSeq(rows, LAMBDA r : r.Dept = keys[k]))]]

\* q.groupby('Dept')['Weekly_Sales'].sum()
GroupByDept(rows) ==
    LET keys == SortedCells({rows[i].Dept : i \in DOMAIN rows})
    IN  [k \in 1..Len(keys) |->
            [key |-> keys[k],
             sum |-> SumSales(SelectSeq(rows, LAMBDA r : r.Dept = keys[k]))]]

----------------------------------------------------------------------------
(* The views of sales() *)

\* view == 'time_series'
time_series(rows) ==
    LET g == GroupByDate(rows)
    IN  [k \in DOMAIN g |->
            [Date |-> Strftime(g[k].key), Weekly_Sales |-> g[k].sum]]

\* monthly without the zero padding of the month
monthlyNoPad(rows) ==
    LET g == GroupByMonth(rows)
    IN  [k \in DOMAIN g |->
            [ym |-> IntStr(g[k].key[1]) \o <<"-">> \o IntStr(g[k].key[2]),
             Weekly_Sales |-> g[k].sum]]

\* view == 'monthly'
monthly(rows) ==
    LET g == GroupByMonth(rows)
    IN  [k \in DOMAIN g |->
            [ym |-> IntStr(g[k].key[1]) \o <<"-">>
                    \o ZFill(IntStr(g[k].key[2]), 2),
             Weekly_Sales |-> g[k].sum]]

\* by_dept with a zero row for every dept of the table that has no row left
by_deptZeroFill(rows) ==
    LET keys == SortedCells({_df.rows[i].Dept : i \in DOMAIN _df.rows})
    IN  [k \in 1..Len(keys) |->
            [Dept |-> keys[k],
             Weekly_Sales |->
                 SumSales(SelectSeq(rows, LAMBDA r : r.Dept = keys[k]))]]

\* view == 'by_dept'
by_dept(rows) ==
    LET g == GroupByDept(rows)
    IN  [k \in DOMAIN g |-> [Dept |-> g[k].key, Weekly_Sales |-> g[k].sum]]

RECURSIVE SumRange(_, _, _)
SumRange(ts, lo, hi) == IF lo > hi THEN 0
                        ELSE ts[lo].sum + SumRange(ts, lo + 1, hi)

\* moving_avg with an expanding window: the mean of all totals so far
moving_avgExpanding(rows, window) ==
    LET ts == GroupByDate(rows)
    IN  [i \in DOMAIN ts |->
            [Date  |-> Strftime(ts[i].key),
             value |-> Frac(SumRange(ts, 1, i), i)]]

\* moving_avg with the window one position too wide
moving_avgWide(rows, window) ==
    LET ts == GroupByDate(rows)
    IN  [i \in DOMAIN ts |->
            LET lo == IF i - window > 1 THEN i - window ELSE 1
            IN  [Date  |-> Strftime(ts[i].key),
                 value |-> Frac(SumRange(ts, lo, i), i - lo + 1)]]

\* view == 'moving_avg': rolling(window, min_periods=1).mean() over the
\* per-date totals, for window >= 1
moving_avg(rows, window) ==
    LET ts == GroupByDate(rows)
    IN  [i \in DOMAIN ts |->
            LET lo == IF i - window + 1 > 1 THEN i - window + 1 ELSE 1
            IN  [Date  |-> Strftime(ts[i].key),
                 value |-> Frac(SumRange(ts, lo, i), i - lo + 1)]]

\* str() of a monthly Period
PeriodStr(ym) == ZFill(NatStr(ym[1]), 4) \o <<"-">> \o ZFill(NatStr(ym[2]), 2)

\* PctChange without fillna(0): the first position stays NaN
PctChangeNoFill(m, i) ==
    IF i = 1 THEN Null
    ELSE LET prev == m[i - 1].sum
             cur  == m[i].sum
         IN  IF prev = 0 THEN (IF cur = 0 THEN Frac(0, 1) ELSE Null)
             ELSE IF prev > 0 THEN Frac((cur - prev) * 100, prev)
             ELSE Frac((prev - cur) * 100, 0 - prev)

\* PctChange writing 0 where the previous total is 0
PctChangeZeroForInf(m, i) ==
    IF i = 1 THEN Frac(0, 1)
    ELSE LET prev == m[i - 1].sum
             cur  == m[i].sum
         IN  IF prev = 0 THEN Frac(0, 1)
             ELSE IF prev > 0 THEN Frac((cur - prev) * 100, prev)
             ELSE Frac((prev - cur) * 100, 0 - prev)

\* PctChange dividing by the magnitude of the previous total
PctChangeAbs(m, i) ==
    IF i = 1 THEN Frac(0, 1)
    ELSE LET prev == m[i - 1].sum
             cur  == m[i].sum
         IN  IF prev = 0 THEN (IF cur = 0 THEN Frac(0, 1) ELSE Null)
             ELSE Frac((cur - prev) * 100, Abs(prev))

\* pct_change().fillna(0)*100 at one position: NaN (no previous, or 0/0)
\* becomes 0, an infinite ratio is written as null
PctChange(m, i) ==
    IF i = 1 THEN Frac(0, 1)
    ELSE LET prev == m[i - 1].sum
             cur  == m[i].sum
         IN  IF prev = 0 THEN (IF cur = 0 THEN Frac(0, 1) ELSE Null)
             ELSE IF prev > 0 THEN Frac((cur - prev) * 100, prev)
             ELSE Frac((prev - cur) * 100, 0 - prev)

\* mom_pct emitting its first row, pct 0, even when no month has data
mom_pctSeeded(rows) ==
    LET m == GroupByMonth(rows)
    IN  IF rows = <<>> THEN <<[ym |-> <<>>, pct |-> Frac(0, 1)]>>
        ELSE [i \in DOMAIN m |->
                 [ym |-> PeriodStr(m[i].key), pct |-> PctChange(m, i)]]

\* mom_pct over every calendar month from the first to the last with data,
\* a month without a row counting as 0
mom_pctGapFilled(rows) ==
    IF rows = <<>> THEN <<>>
    ELSE LET m    == GroupByMonth(rows)
             lo   == m[1].key[1] * 12 + m[1].key[2] - 1
             hi   == m[Len(m)].key[1] * 12 + m[Len(m)].key[2] - 1
             full == [k \in 1..(hi - lo + 1) |->
                         LET ym == <<(lo + k - 1) \div 12,
                                     ((lo + k - 1) % 12) + 1>>
                         IN  [key |-> ym,
                              sum |-> SumSales(SelectSeq(rows,
                                          LAMBDA r : YearMonth(r.Date) = ym))]]
         IN  [i \in DOMAIN full |->
                 [ym |-> PeriodStr(full[i].key), pct |-> PctChange(full, i)]]

\* mom_pct leaving out the months whose pct is not finite
mom_pctFinite(rows) ==
    LET m == GroupByMonth(rows)
    IN  SelectSeq([i \in DOMAIN m |->
                      [ym |-> PeriodStr(m[i].key), pct |-> PctChange(m, i)]],
                  LAMBDA row : row.pct # Null)

\* view == 'mom_pct'
mom_pct(rows) ==
    LET m == GroupByMonth(rows)
    IN  [i \in DOMAIN m |-> [ym |-> PeriodStr(m[i].key), pct |-> PctChange(m, i)]]

----------------------------------------------------------------------------
(* The handlers *)

\* an exception leaving the handler: Flask answers 500
Raise(name) == [status |-> 500, q |-> <<>>, out |-> <<>>, error |-> name]

Ok(qq, rows) == [status |-> 200, q |-> qq, out |-> rows, error |-> ""]

\* ViewName falling back to the default for a view it does not know
ViewNameFallback(r) ==
    IF r.view.given /\ r.view.s \in {"time_series", "monthly", "by_dept",
                                     "moving_avg", "mom_pct"}
    THEN r.view.s ELSE "time_series"

\* request.args.get('view', 'time_series')
ViewName(r) == IF r.view.given THEN r.view.s ELSE "time_series"

\* the if/elif chain on view, over the filtered rows qq
dispatch(qq, view, window) ==
    IF view = "time_series" THEN Ok(qq, time_series(qq))
    ELSE IF view = "monthly" THEN Ok(qq, monthly(qq))
    ELSE IF view = "by_dept" THEN Ok(qq, by_dept(qq))
    ELSE IF view = "moving_avg"
         THEN (IF window < 1 THEN Raise("ValueError")
               ELSE Ok(qq, moving_avg(qq, window)))
    ELSE IF view = "mom_pct" THEN Ok(qq, mom_pct(qq))
    ELSE [status |-> 400, q |-> qq, out |-> <<>>, error |-> "unknown view"]

\* sales() after load_df() returned df
sales(df, r) ==
    LET view   == ViewName(r)
        window == ParseInt(IF r.window.given THEN r.window.s ELSE <<"7">>)
        qq     == Filter(df, r.store, r.start, r.end)
    IN  IF ~window.ok THEN Raise("ValueError")
        ELSE IF DateRaises(r.start) \/ DateRaises(r.end) THEN Raise("TypeError")
        ELSE dispatch(qq, view, window.v)

\* stores() after load_df() returned df
stores(df) ==
    Ok(df, SortedCells({df[i].Store : i \in DOMAIN df}))

Respond(res) ==
    /\ status' = res.status
    /\ q' = res.q
    /\ out' = res.out
    /\ error' = res.error

\* no request is being served
Idle == req.path = ""

\* Sales with the filtered frame written back to the cache
SalesCachesFiltered(r) ==
    LET l   == load_df
        res == IF l.raised THEN Raise(l.exc.type)
               ELSE sales(l.df.rows, r)
    IN  /\ Idle
        /\ req' = r
        /\ _df' = IF l.raised THEN l.df ELSE [l.df EXCEPT !.rows = res.q]
        /\ reads' = IF l.read THEN reads + 1 ELSE reads
        /\ Respond(res)
        /\ UNCHANGED <<csv, first, threads>>

\* GET /sales
Sales(r) ==
    LET l == load_df
    IN  /\ Idle
        /\ req' = r
        /\ _df' = l.df
        /\ reads' = IF l.read THEN reads + 1 ELSE reads
        /\ Respond(IF l.raised THEN Raise(l.exc.type)
                   ELSE sales(l.df.rows, r))
        /\ UNCHANGED <<csv, first, threads>>

\* GET /stores
Stores ==
    LET l == load_df
    IN  /\ Idle
        /\ req' = [path |-> "/stores"]
        /\ _df' = l.df
        /\ reads' = IF l.read THEN reads + 1 ELSE reads
        /\ Respond(IF l.raised THEN Raise(l.exc.type)
                   ELSE stores(l.df.rows))
        /\ UNCHANGED <<csv, first, threads>>

\* the response is sent and the handler's locals are dropped
Return ==
    /\ ~Idle
    /\ req' = [path |-> ""]
    /\ q' = <<>>
    /\ status' = 0
    /\ out' = <<>>
    /\ error' = ""
    /\ UNCHANGED <<csv, _df, first, reads, threads>>

\* no response kept
NoFirst == [set |-> FALSE, req |-> [path |-> ""], status |-> 0,
            out |-> <<>>, error |-> ""]

\* the response to a /sales request is sent, and the caller keeps it
Remember ==
    /\ req.path = "/sales"
    /\ ~first.set
    /\ first' = [set |-> TRUE, req |-> req, status |-> status,
                 out |-> out, error |-> error]
    /\ req' = [path |-> ""]
    /\ q' = <<>>
    /\ status' = 0
    /\ out' = <<>>
    /\ error' = ""
    /\ UNCHANGED <<csv, _df, reads, threads>>

\* the requests the threaded server can handle at a time
NumThreads == 2

Threads == 1..NumThreads

\* a frame a handler holds in a local: shared tells whether it is the
\* object the global _df refers to
NoFrame == [shared |-> FALSE, columns |-> <<>>, rows |-> <<>>]

NoResponse == [status |-> 0, out |-> <<>>, error |-> ""]

\* a thread of the server handling no request
IdleThread == [pc |-> "idle", req |-> [path |-> ""], settled |-> FALSE,
               df |-> NoFrame, q |-> NoFrame, res |-> NoResponse]

\* the process after start-up, requests handled one at a time
Start ==
    /\ _df = NoneDf
    /\ req = [path |-> ""]
    /\ q = <<>>
    /\ status = 0
    /\ out = <<>>
    /\ error = ""
    /\ first = NoFirst
    /\ reads = 0
    /\ threads = [t \in Threads |-> IdleThread]

Init ==
    /\ csv \in Sources
    /\ Start

Next ==
    \/ \E r \in Requests : Sales(r)
    \/ Stores
    \/ Return

Spec == Init /\ [][Next]_vars

\* requests with a window that is no positive integer or a bound that is
\* no date, next to well-formed ones
MalformedWindowArgs == {Arg(<<"x">>), Arg(<<"0">>), Arg(<<"-", "1">>)}

MalformedDateArgs == {Arg(<<"x">>)}

MalformedRequests ==
    [path : {"/sales"},
     view : {View("time_series"), View("by_dept"), View("moving_avg"),
             View("bogus")},
     store : {Absent},
     start : {Absent} \cup MalformedDateArgs,
     end : {Absent} \cup MalformedDateArgs,
     window : {Absent, Arg(<<"2">>)} \cup MalformedWindowArgs]

NextMalformed ==
    \/ \E r \in MalformedRequests : Sales(r)
    \/ Stores
    \/ Return

SpecMalformed == Init /\ [][NextMalformed]_vars

\* requests a caller repeats, other requests served in between
RepeatedRequests ==
    [path : {"/sales"},
     view : {View("time_series"), View("by_dept"), View("moving_avg")},
     store : {Absent, Arg(<<"1">>)},
     start : {Absent,
              Arg(<<"2", "0", "2", "4", "-", "0", "1", "-", "0", "8">>)},
     end : {Absent},
     window : {Absent}]

NextRepeated ==
    \/ \E r \in RepeatedRequests : Sales(r)
    \/ Stores
    \/ Return
    \/ Remember

SpecRepeated == Init /\ [][NextRepeated]_vars

\* requests whose store, start or end is given as the empty string
EmptyArgRequests ==
    [path : {"/sales"},
     view : {View("time_series"), View("monthly"), View("by_dept"),
             View("moving_avg"), View("mom_pct")},
     store : {Absent, Arg(<<>>), Arg(<<"1">>)},
     start : {Absent, Arg(<<>>),
              Arg(<<"2", "0", "2", "4", "-", "0", "1", "-", "0", "8">>)},
     end : {Absent, Arg(<<>>)},
     window : {Absent}]

NextEmptyArg ==
    \/ \E r \in EmptyArgRequests : Sales(r)
    \/ Stores
    \/ Return

SpecEmptyArg == Init /\ [][NextEmptyArg]_vars

\* records of a source with months that add up to 0
ZeroMonthRows ==
    { Row(I(1), S(<<"A">>), Date(2023, 12, 25), 0),
      Row(I(1), S(<<"A">>), Date(2024, 1, 1), 100),
      Row(I(2), S(<<"B">>), Date(2024, 1, 31), -100),
      Row(I(1), S(<<"B">>), Date(2024, 3, 1), 0),
      Row(I(2), S(<<"A">>), Date(2024, 4, 1), 100) }

ZeroMonthRequests ==
    [path : {"/sales"},
     view : {View("mom_pct"), View("monthly")},
     store : {Absent, Arg(<<"1">>)},
     start : {Absent},
     end : {Absent},
     window : {Absent}]

InitZeroMonth ==
    /\ csv \in [exists : {TRUE}, header : {PaddedHeader},
                 rows : SeqsUpTo(ZeroMonthRows, MaxRows)]
    /\ Start

NextZeroMonth ==
    \/ \E r \in ZeroMonthRequests : Sales(r)
    \/ Stores
    \/ Return

SpecZeroMonth == InitZeroMonth /\ [][NextZeroMonth]_vars

\* the file at CSV_PATH over the life of the process: absent, or one record
\* under either header line
SourceFiles ==
    {Missing}
    \cup [exists : {TRUE}, header : {CleanHeader, PaddedHeader},
          rows : SeqsUpTo(IntStoreRows, 1)]

\* the file at CSV_PATH is created, replaced or removed
Replace(s) ==
    /\ s # csv
    /\ csv' = s
    /\ UNCHANGED <<_df, req, q, status, out, error, first, reads, threads>>

SourceRequests ==
    [path : {"/sales"},
     view : {View("time_series"), View("by_dept")},
     store : {Absent, Arg(<<"1">>)},
     start : {Absent},
     end : {Absent},
     window : {Absent}]

InitSource ==
    /\ csv \in SourceFiles
    /\ Start

NextSource ==
    \/ \E r \in SourceRequests : Sales(r)
    \/ Stores
    \/ Return
    \/ Remember
    \/ \E s \in SourceFiles : Replace(s)

SpecSource == InitSource /\ [][NextSource]_vars

----------------------------------------------------------------------------
(* The threaded server: each request in a thread of its own, a step of a
   thread being a statement or a stage of load_df and sales *)

\* the file at CSV_PATH of the threaded server
ThreadFiles ==
    {Missing}
    \cup [exists : {TRUE}, header : {CleanHeader, PaddedHeader},
          rows : {<<Row(I(1), S(<<"A">>), Date(2024, 1, 1), 100),
                    Row(I(2), S(<<"B">>), Date(2023, 1, 8), -100)>>}]

ThreadRequests ==
    {[path |-> "/sales", view |-> v, store |-> st, start |-> Absent,
      end |-> Absent, window |-> Absent] :
        <<v, st>> \in {<<NoView, Absent>>,
                       <<View("by_dept"), Arg(<<"1">>)>>,
                       <<View("bogus"), Absent>>}}

\* q['name'] finds the column
HasColumn(frame, name) == \E i \in DOMAIN frame.columns : frame.columns[i] = name

\* no load is under way and the cache holds the normalised table
Settled ==
    /\ _df.loaded
    /\ _df.columns = StripColumns(_df.columns)
    /\ \A u \in Threads : threads[u].pc \notin {"L19", "L20", "L24"}

\* the handler of thread t leaves with the response res
Leave(t, res) ==
    [threads[t] EXCEPT !.pc = "done",
                       !.res = [status |-> res.status, out |-> res.out,
                                error |-> res.error]]

\* a request arrives and sales() calls load_df() (line 35)
Call(t, r) ==
    /\ threads[t].pc = "idle"
    /\ threads' = [threads EXCEPT ![t] =
                       [@ EXCEPT !.pc = "L18", !.req = r, !.settled = Settled]]
    /\ UNCHANGED <<csv, _df, req, q, status, out, error, first, reads>>

\* if _df is None (line 18)
L18(t) ==
    /\ threads[t].pc = "L18"
    /\ threads' = [threads EXCEPT ![t].pc =
                       IF _df.loaded THEN "L25" ELSE "L19"]
    /\ UNCHANGED <<csv, _df, req, q, status, out, error, first, reads>>

\* if CSV_PATH.exists(), else raise FileNotFoundError (lines 19, 21, 22)
L19(t) ==
    /\ threads[t].pc = "L19"
    /\ threads' = [threads EXCEPT ![t] =
                       IF csv.exists THEN [@ EXCEPT !.pc = "L20"]
                       ELSE Leave(t, Raise(NotFound.type))]
    /\ UNCHANGED <<csv, _df, req, q, status, out, error, first, reads>>

\* L20 leaving an assignment made in the meantime in place
L20KeepsEarlier(t) ==
    /\ threads[t].pc = "L20"
    /\ _df' = IF _df.loaded THEN _df ELSE read_csv
    /\ reads' = reads + 1
    /\ threads' = [threads EXCEPT ![t].pc = "L24"]
    /\ UNCHANGED <<csv, req, q, status, out, error, first>>

\* _df = pd.read_csv(...) (line 20): the global refers to a new frame, and
\* the locals that referred to the frame it held refer to that one still
L20(t) ==
    /\ threads[t].pc = "L20"
    /\ _df' = read_csv
    /\ reads' = reads + 1
    /\ threads' = [u \in Threads |->
                       [threads[u] EXCEPT
                           !.pc = IF u = t THEN "L24" ELSE @,
                           !.df = [@ EXCEPT !.shared = FALSE],
                           !.q  = [@ EXCEPT !.shared = FALSE]]]
    /\ UNCHANGED <<csv, req, q, status, out, error, first>>

\* _df.columns = [c.strip() for c in _df.columns] (line 24): the frame the
\* global refers to now is changed in place, under every reference to it
L24(t) ==
    /\ threads[t].pc = "L24"
    /\ _df' = [_df EXCEPT !.columns = StripColumns(@)]
    /\ threads' = [u \in Threads |->
                       [threads[u] EXCEPT
                           !.pc = IF u = t THEN "L25" ELSE @,
                           !.df = IF @.shared
                                  THEN [@ EXCEPT !.columns = StripColumns(@)]
                                  ELSE @,
                           !.q  = IF @.shared
                                  THEN [@ EXCEPT !.columns = StripColumns(@)]
                                  ELSE @]]
    /\ UNCHANGED <<csv, req, q, status, out, error, first, reads>>

\* return _df (line 25), df = load_df() (line 35)
L25(t) ==
    /\ threads[t].pc = "L25"
    /\ threads' = [threads EXCEPT ![t] =
                       [@ EXCEPT !.pc = "L36",
                                 !.df = [shared |-> TRUE,
                                         columns |-> _df.columns,
                                         rows |-> _df.rows]]]
    /\ UNCHANGED <<csv, _df, req, q, status, out, error, first, reads>>

\* the parameters and the filters (lines 36 to 54): q is df itself when no
\* filter is given, a new frame otherwise
FilterStep(t) ==
    LET r      == threads[t].req
        df     == threads[t].df
        window == ParseInt(IF r.window.given THEN r.window.s ELSE <<"7">>)
    IN  /\ threads[t].pc = "L36"
        /\ threads' = [threads EXCEPT ![t] =
               IF ~window.ok THEN Leave(t, Raise("ValueError"))
               ELSE IF Truthy(r.store) /\ ~HasColumn(df, StoreCol)
                    THEN Leave(t, Raise("KeyError"))
               ELSE IF DateRaises(r.start) \/ DateRaises(r.end)
                    THEN Leave(t, Raise("TypeError"))
               ELSE [@ EXCEPT
                       !.pc = "L56",
                       !.q = IF Truthy(r.store) \/ Truthy(r.start)
                                \/ Truthy(r.end)
                             THEN [shared |-> FALSE, columns |-> df.columns,
                                   rows |-> Filter(df.rows, r.store,
                                                   r.start, r.end)]
                             ELSE df]]
        /\ UNCHANGED <<csv, _df, req, q, status, out, error, first, reads>>

\* the columns the view of r looks up in q
ColumnsOf(view) ==
    IF view = "by_dept" THEN {DeptCol, SalesCol}
    ELSE IF view \in {"time_series", "monthly", "moving_avg", "mom_pct"}
         THEN {DateCol, SalesCol}
    ELSE {}

\* the response of the view stage of thread t
ViewResponse(t) ==
    LET r  == threads[t].req
        qq == threads[t].q
    IN  IF \E c \in ColumnsOf(ViewName(r)) : ~HasColumn(qq, c)
        THEN Raise("KeyError")
        ELSE dispatch(qq.rows, ViewName(r),
                      ParseInt(IF r.window.given THEN r.window.s
                               ELSE <<"7">>).v)

\* ViewStep with the filtered frame written to the global _df
ViewStepCachesFiltered(t) ==
    /\ threads[t].pc = "L56"
    /\ threads' = [threads EXCEPT ![t] = Leave(t, ViewResponse(t))]
    /\ _df' = [_df EXCEPT !.rows = threads[t].q.rows]
    /\ UNCHANGED <<csv, req, q, status, out, error, first, reads>>

\* the view (lines 56 to 82)
ViewStep(t) ==
    /\ threads[t].pc = "L56"
    /\ threads' = [threads EXCEPT ![t] = Leave(t, ViewResponse(t))]
    /\ UNCHANGED <<csv, _df, req, q, status, out, error, first, reads>>

\* the response is sent and the locals of the handler are dropped
ThreadReturn(t) ==
    /\ threads[t].pc = "done"
    /\ threads' = [threads EXCEPT ![t] = IdleThread]
    /\ UNCHANGED <<csv, _df, req, q, status, out, error, first, reads>>

InitThreads ==
    /\ csv \in ThreadFiles
    /\ Start

NextThreads ==
    \E t \in Threads :
        \/ \E r \in ThreadRequests : Call(t, r)
        \/ L18(t)
        \/ L19(t)
        \/ L20(t)
        \/ L24(t)
        \/ L25(t)
        \/ FilterStep(t)
        \/ ViewStep(t)
        \/ ThreadReturn(t)

SpecThreads == InitThreads /\ [][NextThreads]_vars

----------------------------------------------------------------------------
(* Properties of the filter stage *)

\* a /sales request has been answered and its response not yet sent
Served == req.path = "/sales"

\* a /sales request got past load_df, the window conversion and the date
\* comparisons
Filtered == Served /\ status \in {200, 400}

\* the sum of Weekly_Sales over a sequence of rows
RECURSIVE Total(_)
Total(rows) == IF rows = <<>> THEN 0
               ELSE rows[Len(rows)].Weekly_Sales
                    + Total(SubSeq(rows, 1, Len(rows) - 1))

\* a store id read as an integer, whatever the column holds
StoreAsInt(x) == IF IsInt(x) THEN [ok |-> TRUE, v |-> x.int]
                 ELSE ParseInt(x.str)

\* a calendar date as one number, ascending with time
DayKey(dt) == dt.y * 10000 + dt.m * 100 + dt.d

\* the date bounds of the request admit the date dt
InDateBounds(dt) ==
    /\ Truthy(req.start) => DayKey(ParseDate(req.start.s).v) <= DayKey(dt)
    /\ Truthy(req.end) => DayKey(dt) <= DayKey(ParseDate(req.end.s).v)

\* a is b with some rows left out, the others in b's order
RECURSIVE IsSubSeq(_, _)
IsSubSeq(a, b) ==
    IF a = <<>> THEN TRUE
    ELSE IF b = <<>> THEN FALSE
    ELSE IF Head(a) = Head(b) THEN IsSubSeq(Tail(a), Tail(b))
    ELSE IsSubSeq(a, Tail(b))

\* C1: when the store filter parses as an integer n, the rows kept (within
\* the date bounds) are exactly those whose store id, read as an integer,
\* is n, for an int64 and for a text Store column alike.
C1_IntegerMode ==
    (Filtered /\ Truthy(req.store) /\ ParseInt(req.store.s).ok) =>
        q = SelectSeq(_df.rows, LAMBDA r :
                /\ StoreAsInt(r.Store).ok
                /\ StoreAsInt(r.Store).v = ParseInt(req.store.s).v
                /\ InDateBounds(r.Date))

\* C2: when the store filter does not parse as an integer, the rows kept
\* (within the date bounds) are exactly those whose stringified store id
\* equals the filter text, case included.
C2_StringMode ==
    (Filtered /\ Truthy(req.store) /\ ~ParseInt(req.store.s).ok) =>
        q = SelectSeq(_df.rows, LAMBDA r :
                AsStr(r.Store) = req.store.s /\ InDateBounds(r.Date))

\* C2 witness: a text filter kept a row and left out a row whose store id
\* differs from it only in case.
C2_Witness ==
    /\ Filtered /\ Truthy(req.store) /\ ~ParseInt(req.store.s).ok
    /\ q # <<>>
    /\ \E i \in DOMAIN _df.rows :
          /\ AsStr(_df.rows[i].Store) # req.store.s
          /\ Lower(AsStr(_df.rows[i].Store)) = Lower(req.store.s)
          /\ InDateBounds(_df.rows[i].Date)

\* C3: the rows kept are exactly the rows passing the store filter whose
\* date d satisfies (start absent or start <= d) and (end absent or
\* d <= end), in chronological order; a date equal to a bound is kept.
C3_DateBoundsInclusive ==
    Filtered =>
        q = SelectSeq(StoreFilter(_df.rows, req.store),
                      LAMBDA r : InDateBounds(r.Date))

\* C3 witness: both bounds given, a row dated on start and a row dated on
\* end kept, a row outside the bounds left out.
C3_Witness ==
    /\ Filtered /\ Truthy(req.start) /\ Truthy(req.end)
    /\ \E i \in DOMAIN q : q[i].Date = ParseDate(req.start.s).v
    /\ \E i \in DOMAIN q : q[i].Date = ParseDate(req.end.s).v
    /\ req.start # req.end
    /\ Len(q) < Len(StoreFilter(_df.rows, req.store))

\* C4: whatever store, start and end are, the filtered frame is the table
\* with rows left out: no row added or repeated, the order kept.
C4_FilterSubSequence ==
    Filtered => IsSubSeq(q, _df.rows) /\ Len(q) <= Len(_df.rows)

\* C4 witness: a filter kept two different rows and left one out.
C4_Witness ==
    /\ Filtered
    /\ Len(q) >= 2 /\ q[1] # q[2]
    /\ Len(q) < Len(_df.rows)

----------------------------------------------------------------------------
(* Properties of the views *)

FiveViews == {"time_series", "monthly", "by_dept", "moving_avg", "mom_pct"}

\* the window is absent or a positive integer, and the date bounds are
\* calendar dates
WellFormed(r) ==
    /\ r.window.given => ParseInt(r.window.s).ok /\ ParseInt(r.window.s).v >= 1
    /\ Truthy(r.start) => ParseDate(r.start.s).ok
    /\ Truthy(r.end) => ParseDate(r.end.s).ok

\* a /sales request for the view has been answered with rows
Answered(view) == Served /\ status = 200 /\ ViewName(req) = view

\* C5: for each of the five views, a well-formed request whose filters
\* match no row of the loaded table is answered 200 with an empty sequence
\* of rows and no error.
C5_EmptyResultPropagates ==
    (/\ Served /\ _df.loaded
     /\ ViewName(req) \in FiveViews /\ WellFormed(req)
     /\ Filter(_df.rows, req.store, req.start, req.end) = <<>>)
    => status = 200 /\ out = <<>> /\ error = ""

\* C5 witness: filters that match no row of a non-empty table, answered
\* for mom_pct.
C5_Witness ==
    /\ Answered("mom_pct") /\ _df.rows # <<>>
    /\ Truthy(req.store) /\ Truthy(req.start)
    /\ q = <<>> /\ out = <<>>

\* a before b among dept ids: numeric for integers, lexical for text
DeptBefore(a, b) == IF IsInt(a) THEN IsInt(b) /\ a.int < b.int
                    ELSE ~IsInt(b) /\ StrLt(a.str, b.str)

\* the date a row of time_series or moving_avg is keyed by
OutDate(row) == ParseDate(row.Date).v

\* the (year, month) a row of monthly or mom_pct is keyed by
OutMonth(row) == YearMonth(ParseDate(row.ym).v)

\* C6: the rows of every view are in strictly ascending key order
\* (chronological for dates and months, numeric or lexical for dept), and
\* the keys are exactly the distinct keys of the filtered rows, whatever
\* the order of the table.
C6_AscendingDistinctKeys ==
    (Served /\ status = 200) =>
        IF ViewName(req) \in {"time_series", "moving_avg"}
        THEN /\ \A i \in DOMAIN out : ParseDate(out[i].Date).ok
             /\ \A i \in 1..(Len(out) - 1) :
                   DayKey(OutDate(out[i])) < DayKey(OutDate(out[i + 1]))
             /\ {OutDate(out[i]) : i \in DOMAIN out}
                    = {q[j].Date : j \in DOMAIN q}
        ELSE IF ViewName(req) \in {"monthly", "mom_pct"}
        THEN /\ \A i \in DOMAIN out : ParseDate(out[i].ym).ok
             /\ \A i \in 1..(Len(out) - 1) :
                   YearMonthLt(OutMonth(out[i]), OutMonth(out[i + 1]))
             /\ {OutMonth(out[i]) : i \in DOMAIN out}
                    = {YearMonth(q[j].Date) : j \in DOMAIN q}
        ELSE /\ \A i \in 1..(Len(out) - 1) :
                   DeptBefore(out[i].Dept, out[i + 1].Dept)
             /\ {out[i].Dept : i \in DOMAIN out}
                    = {q[j].Dept : j \in DOMAIN q}

\* C6 witness: by_dept answered with two rows from a filtered frame whose
\* first row has the larger dept.
C6_Witness ==
    /\ Answered("by_dept") /\ Len(out) >= 2
    /\ DeptBefore(q[Len(q)].Dept, q[1].Dept)

\* C7: the Weekly_Sales of the time_series rows add up to the Weekly_Sales
\* of the filtered rows, negative amounts included.
C7_TimeSeriesConservesTotal ==
    Answered("time_series") => Total(out) = Total(q)

\* C7 witness: time_series merged two rows of one date, a negative amount
\* among the filtered rows.
C7_Witness ==
    /\ Answered("time_series") /\ out # <<>> /\ Len(out) < Len(q)
    /\ \E j \in DOMAIN q : q[j].Weekly_Sales < 0

\* C8: the monthly totals add up to what the time_series totals of the same
\* filtered rows add up to.
C8_MonthlyTotalEqualsTimeSeriesTotal ==
    Answered("monthly") => Total(out) = Total(time_series(q))

\* C8 witness: monthly answered with two months, one of them merging two
\* dates.
C8_Witness ==
    /\ Answered("monthly") /\ Len(out) >= 2
    /\ Len(out) < Len(time_series(q))

\* the year and the month written in a "YYYY-MM" key
KeyYear(ym) == DigitsVal(SubSeq(ym, 1, 4))
KeyMonth(ym) == DigitsVal(SubSeq(ym, 6, 7))

\* the filtered rows of one calendar month
RowsOfMonth(y, m) == SelectSeq(q, LAMBDA r : r.Date.y = y /\ r.Date.m = m)

\* C9: monthly emits one row per calendar (year, month) of the filtered
\* rows: its key is "YYYY-MM" with the month zero-padded, its Weekly_Sales
\* the sum of all rows of that month whatever the day, and one month number
\* in two years gives two rows.
C9_MonthlyPerCalendarMonth ==
    Answered("monthly") =>
        /\ \A i \in DOMAIN out :
              /\ Len(out[i].ym) = 7 /\ out[i].ym[5] = "-"
              /\ AllDigits(SubSeq(out[i].ym, 1, 4))
              /\ AllDigits(SubSeq(out[i].ym, 6, 7))
              /\ RowsOfMonth(KeyYear(out[i].ym), KeyMonth(out[i].ym)) # <<>>
              /\ out[i].Weekly_Sales
                     = Total(RowsOfMonth(KeyYear(out[i].ym), KeyMonth(out[i].ym)))
        /\ \A i, j \in DOMAIN out : out[i].ym = out[j].ym => i = j
        /\ \A j \in DOMAIN q : \E i \in DOMAIN out :
              /\ KeyYear(out[i].ym) = q[j].Date.y
              /\ KeyMonth(out[i].ym) = q[j].Date.m

\* C9 witness: the filtered rows hold two days of one month and the same
\* month number of another year; monthly answered with two rows.
C9_Witness ==
    /\ Answered("monthly") /\ Len(out) = 2
    /\ \E i, j \in DOMAIN q :
          /\ q[i].Date.y = q[j].Date.y /\ q[i].Date.m = q[j].Date.m
          /\ q[i].Date.d # q[j].Date.d
    /\ \E i, j \in DOMAIN q :
          q[i].Date.y # q[j].Date.y /\ q[i].Date.m = q[j].Date.m

\* C10: by_dept emits exactly one row for each dept of the filtered rows,
\* Weekly_Sales the sum of the dept's rows, and no row for a dept without a
\* filtered row.
C10_ByDeptOnlyPresentDepts ==
    Answered("by_dept") =>
        /\ \A i \in DOMAIN out :
              /\ \E j \in DOMAIN q : q[j].Dept = out[i].Dept
              /\ out[i].Weekly_Sales
                     = Total(SelectSeq(q, LAMBDA r : r.Dept = out[i].Dept))
        /\ \A i, j \in DOMAIN out : out[i].Dept = out[j].Dept => i = j
        /\ \A j \in DOMAIN q : \E i \in DOMAIN out : out[i].Dept = q[j].Dept

\* C10 witness: by_dept answered with a row while a dept of the table has
\* no filtered row.
C10_Witness ==
    /\ Answered("by_dept") /\ out # <<>>
    /\ \E i \in DOMAIN _df.rows :
          \A j \in DOMAIN q : q[j].Dept # _df.rows[i].Dept

----------------------------------------------------------------------------
(* Properties of moving_avg and mom_pct *)

\* int(request.args.get('window', '7')) of the request
WindowOf(r) == ParseInt(IF r.window.given THEN r.window.s ELSE <<"7">>).v

\* C11: with the per-date totals in chronological order, the value at
\* position i is the mean of the totals at the last min(i, window)
\* positions up to i, for every positive window; the first value is the
\* first date's total.
C11_TrailingWindowMean ==
    Answered("moving_avg") =>
        LET ts == time_series(q)
        IN  /\ Len(out) = Len(ts)
            /\ \A i \in DOMAIN out :
                  LET lo == IF i - WindowOf(req) + 1 > 1
                            THEN i - WindowOf(req) + 1 ELSE 1
                  IN  /\ out[i].Date = ts[i].Date
                      /\ out[i].value.den > 0
                      /\ out[i].value.num * (i - lo + 1)
                             = out[i].value.den * Total(SubSeq(ts, lo, i))

\* C11 witness: window 2 over three dates, so that the third value leaves
\* the first total out.
C11_Witness ==
    /\ Answered("moving_avg") /\ WindowOf(req) = 2 /\ Len(out) = 3
    /\ time_series(q)[1].Weekly_Sales # 0

\* C12: with window = 1, moving_avg emits the dates of time_series in the
\* same order, each value being the time_series total of its date.
C12_WindowOneIsTimeSeries ==
    (Answered("moving_avg") /\ WindowOf(req) = 1) =>
        LET ts == time_series(q)
        IN  /\ Len(out) = Len(ts)
            /\ \A i \in DOMAIN out :
                  /\ out[i].Date = ts[i].Date
                  /\ out[i].value = [num |-> ts[i].Weekly_Sales, den |-> 1]

\* C12 witness: window 1 over at least two dates with different totals.
C12_Witness ==
    /\ Answered("moving_avg") /\ WindowOf(req) = 1 /\ Len(out) >= 2
    /\ out[1].value # out[2].value

\* the total of the filtered rows of the month written in a "YYYY-MM" key
MonthTotal(ym) == Total(RowsOfMonth(KeyYear(ym), KeyMonth(ym)))

\* C13: when mom_pct emits a row, the first row has pct 0, whatever the
\* first month's total.
C13_FirstPctIsZero ==
    (Answered("mom_pct") /\ out # <<>>) => out[1].pct = [num |-> 0, den |-> 1]

\* C13 witness: mom_pct answered with two months, the first of a negative
\* total.
C13_Witness ==
    /\ Answered("mom_pct") /\ Len(out) >= 2
    /\ MonthTotal(out[1].ym) < 0

\* C14: for a mom_pct row after the first whose preceding emitted month has
\* a non-zero total, pct = (current - previous) / previous * 100, negative
\* totals included.
C14_PctFormula ==
    Answered("mom_pct") =>
        \A i \in 2..Len(out) :
            LET prev == MonthTotal(out[i - 1].ym)
                cur  == MonthTotal(out[i].ym)
            IN  prev # 0 =>
                    /\ out[i].pct.den > 0
                    /\ out[i].pct.num * prev
                           = out[i].pct.den * (cur - prev) * 100

\* C14 witness: a month of a negative total followed by a month of another
\* total.
C14_Witness ==
    /\ Answered("mom_pct") /\ Len(out) >= 2
    /\ MonthTotal(out[1].ym) < 0
    /\ MonthTotal(out[2].ym) # MonthTotal(out[1].ym)

\* C15: a well-formed mom_pct request over filtered rows in which a month
\* adds up to exactly 0 is answered 200 without error, with one row for
\* every month, the month after the zero month included.
C15_ZeroMonthNeverRaises ==
    LET f == Filter(_df.rows, req.store, req.start, req.end)
    IN  (/\ Served /\ _df.loaded
         /\ ViewName(req) = "mom_pct" /\ WellFormed(req)
         /\ \E j \in DOMAIN f :
               Total(SelectSeq(f, LAMBDA r :
                   YearMonth(r.Date) = YearMonth(f[j].Date))) = 0)
        => /\ status = 200 /\ error = ""
           /\ Len(out) = Cardinality({YearMonth(f[j].Date) : j \in DOMAIN f})
           /\ \A j \in DOMAIN f : \E i \in DOMAIN out :
                 OutMonth(out[i]) = YearMonth(f[j].Date)

\* C15 witness: a month of total 0 followed by a month of a non-zero total,
\* both emitted.
C15_Witness ==
    /\ Answered("mom_pct")
    /\ \E i \in 2..Len(out) :
          MonthTotal(out[i - 1].ym) = 0 /\ MonthTotal(out[i].ym) # 0

----------------------------------------------------------------------------
(* Properties of the request handling *)

\* C16: a request for a view that is none of the five, on a loaded table
\* and with well-formed store, start, end and window, is answered with a
\* 4xx status, an error and no rows; the cached table stays as loaded.
C16_UnknownViewIs4xx ==
    (/\ Served /\ _df.loaded /\ WellFormed(req)
     /\ req.view.given /\ req.view.s \notin FiveViews)
    => /\ status \in 400..499
       /\ out = <<>> /\ error # ""
       /\ _df.rows = csv.rows

\* C16 witness: an unknown view asked over filters that keep rows, and
\* answered 400.
C16_Witness ==
    /\ Served /\ req.view.given /\ req.view.s = "bogus"
    /\ q # <<>> /\ status = 400

\* C17: a request whose window is no positive integer, or whose start or
\* end is no date, is answered with a 4xx status.
C17_MalformedIs4xx ==
    (Served /\ _df.loaded /\ ~WellFormed(req)) => status \in 400..499

\* C18: for the views other than moving_avg the response does not depend
\* on window: whatever the window, absent and malformed ones included, the
\* status, rows and error are those of the same request without a window.
C18_WindowOnlyForMovingAvg ==
    (/\ Served /\ _df.loaded
     /\ ViewName(req) \in FiveViews \ {"moving_avg"})
    => LET other == sales(_df.rows, [req EXCEPT !.window = Absent])
       IN  /\ other.status = status
           /\ other.out = out
           /\ other.error = error

\* C19: a /sales request with the parameters of a request answered
\* earlier gets the status, rows (in order) and error of that earlier
\* response, whatever was served in between.
C19_SameRequestSameResponse ==
    (Served /\ first.set /\ first.req = req) =>
        /\ status = first.status
        /\ out = first.out
        /\ error = first.error

\* C19 witness: by_dept answered a second time with the two rows it was
\* answered with before.
C19_Witness ==
    /\ Answered("by_dept") /\ first.set /\ first.req = req
    /\ Len(out) >= 2

\* C20: once loaded, the cached table is never changed by a request: same
\* rows, order and values after every step.
C20_TableNeverMutated == [][_df.loaded => _df' = _df]_vars

\* C20 witness: a request on the loaded table was answered from a filtered
\* frame of fewer rows, the cache still holding the table of the source.
C20_Witness ==
    /\ Served /\ status = 200 /\ _df.loaded
    /\ Len(q) < Len(_df.rows) /\ out # <<>>
    /\ _df.rows = csv.rows

----------------------------------------------------------------------------
(* Properties of load_df *)

Returned(t) == threads[t].pc \in {"L36", "L56"}

\* C22: every table load_df has returned to a handler, a handler running
\* while another thread performs the first load included, has column names
\* without surrounding blanks: each of the four columns is found under its
\* name.
C22_ReturnedTableIsNormalised ==
    \A t \in Threads :
        Returned(t) =>
            /\ threads[t].df.columns = StripColumns(threads[t].df.columns)
            /\ \A c \in {StoreCol, DeptCol, DateCol, SalesCol} :
                   HasColumn(threads[t].df, c)

\* C23: every read_csv leaves the global _df referring to the frame just
\* read, whatever it referred to before, and each thread reads at most
\* once; the witness is the race itself.
C23_LaterAssignmentOverwrites ==
    /\ [](reads <= NumThreads)
    /\ [][reads' # reads => (reads' = reads + 1 /\ _df' = read_csv)]_vars

\* C23 witness: two threads passed the check of line 18 while the cache was
\* unset and both read the source; the first got its frame back from
\* load_df before the second assigned its own over it.
C23_Witness ==
    /\ reads = 2
    /\ \E t \in Threads :
          /\ Returned(t)
          /\ ~threads[t].df.shared
          /\ threads[t].df.columns # _df.columns

\* C24: a /sales request that arrives when no load is under way and the
\* cache holds the normalised table is answered, whatever the other
\* threads do in between its steps, as sales() run alone on that table
\* answers it, and the table is left as it was.
C24_ConcurrentReadsAsAlone ==
    \A t \in Threads :
        (threads[t].settled /\ threads[t].pc = "done") =>
            LET alone == sales(csv.rows, threads[t].req)
            IN  /\ threads[t].res.status = alone.status
                /\ threads[t].res.out = alone.out
                /\ threads[t].res.error = alone.error
                /\ _df = [read_csv EXCEPT
                             !.columns = StripColumns(read_csv.columns)]

\* C24 witness: two requests that arrived on the loaded table, one between
\* its filter and its view on a frame of fewer rows, the other answered
\* with rows in the meantime.
C24_Witness ==
    \E t, u \in Threads :
        /\ t # u
        /\ threads[t].settled /\ threads[u].settled
        /\ threads[t].pc = "L56"
        /\ Len(threads[t].q.rows) < Len(_df.rows)
        /\ threads[u].pc = "done"
        /\ threads[u].res.status = 200 /\ threads[u].res.out # <<>>

\* C25: while no file is at CSV_PATH, load_df raises FileNotFoundError
\* naming CSV_PATH and caches no table, empty or other; the request that
\* called it is answered with that error, a 5xx status and no rows.
C25_MissingSourceIsAnError ==
    (~Idle /\ ~csv.exists) =>
        /\ load_df.raised
        /\ load_df.exc.type = "FileNotFoundError"
        /\ load_df.exc.path = CSV_PATH
        /\ ~_df.loaded
        /\ status \in 500..599 /\ error = "FileNotFoundError"
        /\ out = <<>> /\ q = <<>>

\* C25 witness: a by_dept request answered 500 with no file at CSV_PATH.
C25_Witness ==
    /\ Served /\ ViewName(req) = "by_dept"
    /\ csv = Missing
    /\ status = 500 /\ error = "FileNotFoundError"

\* C26: the error payload of an unknown view tells the request it answers:
\* it holds the view name and the parameter values, so that a request with
\* another unknown view name, or with another store, gets another payload.
C26_ErrorCarriesContext ==
    (Served /\ _df.loaded /\ status = 400) =>
        \A other \in {[req EXCEPT !.view = View("other")],
                       [req EXCEPT !.store = Arg(<<"9">>)]} :
            LET res == sales(_df.rows, other)
            IN  res.status = 400 => res.error # error

----------------------------------------------------------------------------
(* Further properties of the filter stage and of mom_pct *)

\* a parameter that is absent or the empty string
NoConstraint(p) == ~p.given \/ p.s = <<>>

\* the request with its empty store, start and end left out
WithoutEmpty(r) ==
    [r EXCEPT !.store = IF NoConstraint(@) THEN Absent ELSE @,
              !.start = IF NoConstraint(@) THEN Absent ELSE @,
              !.end = IF NoConstraint(@) THEN Absent ELSE @]

\* C27: a store, start or end that is the empty string constrains as
\* little as an absent one: the request is answered as without it; and
\* when none of the three constrains, the filtered frame is the whole
\* table, rows and order, and the view is computed over it.
C27_EmptyFilterIsNoFilter ==
    (Served /\ _df.loaded) =>
        LET res == sales(_df.rows, WithoutEmpty(req))
        IN  /\ status = res.status /\ q = res.q
            /\ out = res.out /\ error = res.error
            /\ (/\ NoConstraint(req.store) /\ NoConstraint(req.start)
                /\ NoConstraint(req.end))
               => /\ status = 200
                  /\ q = csv.rows
                  /\ out = dispatch(csv.rows, ViewName(req),
                                    WindowOf(req)).out

\* C27 witness: store and start given as empty strings, end absent, a
\* table of several rows of different stores answered in full.
C27_Witness ==
    /\ Served /\ status = 200
    /\ req.store = Arg(<<>>) /\ req.start = Arg(<<>>) /\ ~req.end.given
    /\ Len(q) >= 2 /\ q = csv.rows /\ out # <<>>
    /\ \E i, j \in DOMAIN q : q[i].Store # q[j].Store

\* C28: in a mom_pct response, a row after the first whose preceding
\* emitted month adds up to 0 has pct 0 when its own month adds up to 0,
\* and a value that is not finite, written as null, when it does not.
C28_ZeroPreviousPolicy ==
    Answered("mom_pct") =>
        \A i \in 2..Len(out) :
            MonthTotal(out[i - 1].ym) = 0 =>
                IF MonthTotal(out[i].ym) = 0
                THEN out[i].pct = [num |-> 0, den |-> 1]
                ELSE out[i].pct = Null /\ out[i].pct.den = 0

\* C28 witness: three months adding up to 0, 0 and a non-zero amount:
\* pct 0 for the second, null for the third.
C28_Witness ==
    /\ Answered("mom_pct") /\ Len(out) = 3
    /\ MonthTotal(out[1].ym) = 0 /\ MonthTotal(out[2].ym) = 0
    /\ MonthTotal(out[3].ym) # 0
    /\ out[2].pct = [num |-> 0, den |-> 1] /\ out[3].pct = Null

\* months from year 0 to the month written in a "YYYY-MM" key
MonthIndex(ym) == KeyYear(ym) * 12 + KeyMonth(ym)

\* C29: mom_pct emits the month keys monthly emits for the same filtered
\* rows, in the same order: a row for every month with a filtered row and
\* for no other; the pct of a row is taken against the row before it, the
\* preceding month with data, however many calendar months lie between.
C29_MomPctKeysAreMonthlyKeys ==
    Answered("mom_pct") =>
        /\ [i \in DOMAIN out |-> out[i].ym]
               = [i \in DOMAIN monthly(q) |-> monthly(q)[i].ym]
        /\ \A i \in DOMAIN out :
               RowsOfMonth(KeyYear(out[i].ym), KeyMonth(out[i].ym)) # <<>>
        /\ \A i \in 2..Len(out) :
               LET prev == MonthTotal(out[i - 1].ym)
                   cur  == MonthTotal(out[i].ym)
               IN  prev # 0 =>
                       /\ out[i].pct.den > 0
                       /\ out[i].pct.num * prev
                              = out[i].pct.den * (cur - prev) * 100

\* C29 witness: two emitted months more than one calendar month apart, the
\* later one with a pct taken against the earlier.
C29_Witness ==
    /\ Answered("mom_pct") /\ Len(out) >= 2
    /\ MonthIndex(out[2].ym) > MonthIndex(out[1].ym) + 1
    /\ MonthTotal(out[1].ym) # 0
    /\ out[2].pct.den > 0 /\ out[2].pct.num # 0

\* C30: a request that arrives while the cache is unset attempts the load:
\* with no file at CSV_PATH it is answered FileNotFoundError and the cache
\* stays unset, however many requests failed before it; with a file there
\* it reads the file, caches its table and is answered from it.
C30_FailedLoadNotCached ==
    [][(Idle /\ ~Idle' /\ ~_df.loaded) =>
          IF csv.exists
          THEN /\ _df'.loaded /\ _df'.rows = csv.rows
               /\ reads' = reads + 1
               /\ status' = 200 /\ error' = ""
          ELSE /\ _df' = NoneDf
               /\ reads' = reads
               /\ status' = 500 /\ error' = "FileNotFoundError"]_vars

\* C30 witness: a /sales request was answered FileNotFoundError, the file
\* was created, and a later /sales request is answered from the table
\* read then.
C30_Witness ==
    /\ first.set /\ first.status = 500 /\ first.error = "FileNotFoundError"
    /\ Served /\ status = 200 /\ out # <<>>
    /\ _df.loaded /\ _df.rows = csv.rows /\ reads = 1

====
